---- MODULE Spec2Model ----
(***************************************************************************)
(* State-machine model of the NVIDIA device plugin (main.go, server.go).    *)
(*                                                                         *)
(* Goroutines modelled: the caller of Start/Stop (main), one healthcheck   *)
(* goroutine per successful Start, and one ListAndWatch handler goroutine  *)
(* per opened stream.  Channels m.stop and m.health are unbuffered:        *)
(* m.stop is only ever closed, m.health is a rendezvous between a          *)
(* healthcheck goroutine blocked in unhealthy() and a ListAndWatch loop    *)
(* blocked in its select.                                                  *)
(***************************************************************************)
EXTENDS Integers, Sequences, FiniteSets, TLC

(* ------------------------------ bounds -------------------------------- *)
MaxDevs    == 2   \* most devices an enumeration returns
MaxStreams == 2   \* ListAndWatch streams that may be opened
MaxStarts  == 2   \* Start calls that succeed on the plugin instance
MaxFaults  == 2   \* fault events the hardware source emits in total
MaxReq     == 2   \* most device ids in one InitContainer request

Streams  == 1..MaxStreams
Monitors == 1..MaxStarts
DevIdx   == 1..MaxDevs

Healthy   == "Healthy"
Unhealthy == "Unhealthy"

VARIABLES
  callerPc,   \* position of the goroutine that runs main / calls Start and Stop
  ret,        \* [op, err] of the last Start/Stop call that returned
  devs,       \* m.devs: sequence of device ids held by the plugin
  devHealth,  \* devHealth[i]: the Health field of m.devs[i]
  socket,     \* TRUE iff a file exists at m.socket
  server,     \* TRUE iff m.server # nil
  serving,    \* TRUE iff a gRPC server is accepting calls
  stop,       \* m.stop: "open" or "closed"
  stopCloses, \* number of close(m.stop) statements executed
  panicked,   \* TRUE once the process has panicked (all goroutines are gone)
  launched,   \* number of healthcheck goroutines launched
  mpc,        \* mpc[k]: position of healthcheck goroutine k
  mdev,       \* mdev[k]: device index goroutine k holds in unhealthy(dev)
  nFaults,    \* fault events received from xids so far
  delivered,  \* device indexes for which a fault event was received from xids
  faultSeq,   \* those device indexes in the order their first event was received
  spc,        \* spc[s]: position of ListAndWatch handler s
  sdev,       \* sdev[s]: device index d read from m.health by handler s
  sbuf,       \* sbuf[s]: devices already read by the s.Send in progress
  sent,       \* sent[s]: the responses handed to s.Send, in order
  openSnap,   \* openSnap[s]: the device list at the moment handler s was entered
  owed,       \* owed[s]: value of delivered when the s.Send in progress began
  recvs,      \* values read from m.health so far (by all handlers)
  resends,    \* s.Send calls of the loop body completed so far (all handlers)
  rpc         \* the last InitContainer / AdmitPod call: [op, req, out]

vars == <<callerPc, ret, devs, devHealth, socket, server, serving,
          stop, stopCloses, panicked, launched, mpc, mdev, nFaults, delivered,
          faultSeq, spc, sdev, sbuf, sent, openSnap, owed, recvs, resends, rpc>>

callerVars == <<callerPc, ret>>
devVars    == <<devs, devHealth>>
srvVars    == <<socket, server, serving>>
stopVars   == <<stop, stopCloses, panicked>>
monVars    == <<launched, mpc, mdev, nFaults, delivered, faultSeq>>
strVars    == <<spc, sdev, sbuf, sent, openSnap, owed, recvs, resends>>
rpcVars    == <<rpc>>

(* --------------------------- pure helpers ----------------------------- *)

\* The id the enumeration gives the i-th device.
DeviceID(i) == "GPU-" \o ToString(i - 1)

\* getDevices(): the hardware enumeration; every call asks the hardware
\* again, so every call may return a different number of devices.
getDevices == { [i \in 1..n |-> DeviceID(i)] : n \in 0..MaxDevs }

\* One pluginapi.Device as it is read at this moment.
Device(i) == [ID |-> devs[i], Health |-> devHealth[i]]

\* &pluginapi.ListAndWatchResponse{Devices: m.devs} read in one instant.
Snapshot == [i \in 1..Len(devs) |-> Device(i)]

\* cleanup(): os.Remove(m.socket); "does not exist" is not an error.
\* The set of possible outcomes given whether the file exists.
cleanup(exists) ==
  IF ~exists
    THEN { [err |-> "nil", socket |-> FALSE] }
    ELSE { [err |-> "nil", socket |-> FALSE],
           [err |-> "remove", socket |-> TRUE] }

Ret(op, err) == [op |-> op, err |-> err]

\* A call's result: resp is << >> for a nil response and <<r>> for &r.
Result(resp, err) == [resp |-> resp, err |-> err]

\* No InitContainer or AdmitPod call has been made yet.
NoCall == [op |-> "none", req |-> << >>, out |-> Result(<< >>, "nil")]

Alive == ~panicked

(* ------------------------------- Init --------------------------------- *)
\* The process has just started: nothing is enumerated, no plugin is
\* constructed, no socket file is left over, no goroutine is launched.
Init ==
  /\ callerPc = "fetch"
  /\ ret = Ret("none", "nil")
  /\ devs = << >>
  /\ devHealth = << >>
  /\ socket = FALSE
  /\ server = FALSE
  /\ serving = FALSE
  /\ stop = "open"
  /\ stopCloses = 0
  /\ panicked = FALSE
  /\ launched = 0
  /\ mpc = [k \in Monitors |-> "none"]
  /\ mdev = [k \in Monitors |-> 0]
  /\ nFaults = 0
  /\ delivered = {}
  /\ faultSeq = << >>
  /\ spc = [s \in Streams |-> "idle"]
  /\ sdev = [s \in Streams |-> 0]
  /\ sbuf = [s \in Streams |-> << >>]
  /\ sent = [s \in Streams |-> << >>]
  /\ openSnap = [s \in Streams |-> << >>]
  /\ owed = [s \in Streams |-> {}]
  /\ recvs = 0
  /\ resends = 0
  /\ rpc = NoCall

(* ------------------------------- main --------------------------------- *)

\* main.go 24-28: enumerate; with no devices wait indefinitely.
MainFetchDevices ==
  /\ Alive /\ callerPc = "fetch"
  /\ \E e \in getDevices :
       callerPc' = IF Len(e) = 0 THEN "halted" ELSE "new"
  /\ UNCHANGED <<ret, devVars, srvVars, stopVars, monVars, strVars, rpcVars>>

\* NewNvidiaDevicePlugin: a second enumeration fills m.devs (every device
\* comes out of the enumeration Healthy); the channels are made here and
\* nowhere else.
NewNvidiaDevicePlugin ==
  /\ Alive /\ callerPc = "new"
  /\ \E e \in getDevices :
       /\ devs' = e
       /\ devHealth' = [i \in 1..Len(e) |-> Healthy]
  /\ callerPc' = "idle"
  /\ UNCHANGED <<ret, srvVars, stopVars, monVars, strVars, rpcVars>>

(* ------------------------------- Start -------------------------------- *)

\* Start, lines 65-68: err := m.cleanup(); return err if it failed.
\* Callers start a plugin that is Stopped.
StartCleanup ==
  /\ Alive /\ callerPc = "idle" /\ ~server /\ launched < MaxStarts
  /\ \E o \in cleanup(socket) :
       /\ socket' = o.socket
       /\ IF o.err = "nil"
            THEN callerPc' = "start_mkdir" /\ ret' = ret
            ELSE callerPc' = "idle" /\ ret' = Ret("Start", o.err)
  /\ UNCHANGED <<devVars, server, serving, stopVars, monVars, strVars, rpcVars>>

\* Start, lines 70-72: os.MkdirAll.
StartMkdirAll ==
  /\ Alive /\ callerPc = "start_mkdir"
  /\ \/ callerPc' = "start_listen" /\ ret' = ret
     \/ callerPc' = "idle" /\ ret' = Ret("Start", "mkdir")
  /\ UNCHANGED <<devVars, srvVars, stopVars, monVars, strVars, rpcVars>>

\* A Start that makes the server before it listens and leaves it in place
\* when the listen fails.
StartListen_ServerKept ==
  /\ Alive /\ callerPc = "start_listen"
  /\ \/ /\ ~socket /\ socket' = TRUE /\ callerPc' = "start_serve" /\ ret' = ret
        /\ server' = server
     \/ /\ socket' = socket /\ callerPc' = "idle" /\ ret' = Ret("Start", "listen")
        /\ server' = TRUE
  /\ UNCHANGED <<devVars, serving, stopVars, monVars, strVars, rpcVars>>

\* Start, lines 74-77: net.Listen("unix", m.socket) creates the socket file;
\* it fails when the path is taken, and may fail otherwise.
StartListen ==
  /\ Alive /\ callerPc = "start_listen"
  /\ \/ ~socket /\ socket' = TRUE /\ callerPc' = "start_serve" /\ ret' = ret
     \/ socket' = socket /\ callerPc' = "idle" /\ ret' = Ret("Start", "listen")
  /\ UNCHANGED <<devVars, server, serving, stopVars, monVars, strVars, rpcVars>>

\* Start, lines 79-87: m.server = grpc.NewServer; go Serve; go healthcheck.
StartServe ==
  /\ Alive /\ callerPc = "start_serve"
  /\ server' = TRUE
  /\ serving' = TRUE
  /\ launched' = launched + 1
  /\ mpc' = [mpc EXCEPT ![launched + 1] = "select"]
  /\ callerPc' = "idle"
  /\ ret' = Ret("Start", "nil")
  /\ UNCHANGED <<devVars, socket, stopVars, mdev, nFaults, delivered,
                 faultSeq, strVars, rpcVars>>

(* ------------------------------- Stop --------------------------------- *)

\* Stop, lines 92-94: no server, nothing to do.
StopNoServer ==
  /\ Alive /\ callerPc = "idle" /\ ~server
  /\ ret' = Ret("Stop", "nil")
  /\ UNCHANGED <<callerPc, devVars, srvVars, stopVars, monVars, strVars, rpcVars>>

\* Stop, line 96: m.server.Stop(): no new calls are accepted.  Handlers
\* already running are goroutines of their own and run on to their return;
\* the socket file is left for cleanup() in line 100.
StopServer ==
  /\ Alive /\ callerPc = "idle" /\ server
  /\ serving' = FALSE
  /\ callerPc' = "stop_clear"
  /\ UNCHANGED <<ret, devVars, socket, server, stopVars, monVars, strVars, rpcVars>>

\* Stop, line 97: m.server = nil.
StopClearServer ==
  /\ Alive /\ callerPc = "stop_clear"
  /\ server' = FALSE
  /\ callerPc' = "stop_close"
  /\ UNCHANGED <<ret, devVars, socket, serving, stopVars, monVars, strVars, rpcVars>>

\* A Stop that goes on to remove the socket file without closing m.stop.
StopClose_Skipped ==
  /\ Alive /\ callerPc = "stop_close"
  /\ callerPc' = "stop_cleanup"
  /\ UNCHANGED <<ret, devVars, srvVars, stopVars, monVars, strVars, rpcVars>>

\* Stop, line 98: close(m.stop); closing a closed channel panics.
StopClose ==
  /\ Alive /\ callerPc = "stop_close"
  /\ stopCloses' = stopCloses + 1
  /\ IF stop = "open"
       THEN stop' = "closed" /\ panicked' = FALSE /\ callerPc' = "stop_cleanup"
       ELSE stop' = stop /\ panicked' = TRUE /\ callerPc' = "panic"
  /\ UNCHANGED <<ret, devVars, srvVars, monVars, strVars, rpcVars>>

\* Stop, line 100: return m.cleanup().
StopCleanup ==
  /\ Alive /\ callerPc = "stop_cleanup"
  /\ \E o \in cleanup(socket) :
       /\ socket' = o.socket
       /\ ret' = Ret("Stop", o.err)
  /\ callerPc' = "idle"
  /\ UNCHANGED <<devVars, server, serving, stopVars, monVars, strVars, rpcVars>>

(* ---------------------------- healthcheck ----------------------------- *)

\* healthcheck, lines 202-204: case <-m.stop: cancel(); return.
HealthcheckStop(k) ==
  /\ Alive /\ mpc[k] = "select" /\ stop = "closed"
  /\ mpc' = [mpc EXCEPT ![k] = "exited"]
  /\ UNCHANGED <<callerVars, devVars, srvVars, stopVars, launched, mdev, nFaults,
                 delivered, faultSeq, strVars, rpcVars>>

\* healthcheck, lines 205-206: case dev := <-xids: the watcher hands over a
\* fault event for one of m.devs; m.unhealthy(dev) is entered.
HealthcheckXid(k) ==
  /\ Alive /\ mpc[k] = "select" /\ nFaults < MaxFaults
  /\ \E d \in 1..Len(devs) :
       /\ mdev' = [mdev EXCEPT ![k] = d]
       /\ delivered' = delivered \cup {d}
       /\ faultSeq' = IF d \in delivered THEN faultSeq ELSE Append(faultSeq, d)
  /\ mpc' = [mpc EXCEPT ![k] = "unhealthy"]
  /\ nFaults' = nFaults + 1
  /\ UNCHANGED <<callerVars, devVars, srvVars, stopVars, launched, strVars, rpcVars>>

(* ---------------------------- ListAndWatch ---------------------------- *)

\* The handler is entered for a new stream (line 128) and the s.Send of
\* line 129 starts reading m.devs: the first device, if any, is read now.
ListAndWatchOpen(s) ==
  /\ Alive /\ serving /\ spc[s] = "idle"
  /\ spc' = [spc EXCEPT ![s] = "send_first"]
  /\ openSnap' = [openSnap EXCEPT ![s] = Snapshot]
  /\ owed' = [owed EXCEPT ![s] = delivered]
  /\ sbuf' = [sbuf EXCEPT ![s] = IF Len(devs) > 0 THEN <<Device(1)>> ELSE << >>]
  /\ UNCHANGED <<callerVars, devVars, srvVars, stopVars, monVars, sdev, sent,
                 recvs, resends, rpcVars>>

\* s.Send (lines 129 and 138) encodes Devices: m.devs element by element,
\* holding no lock: one step reads the next device as it is at that moment;
\* when all are read the response goes out on the stream and the loop is at
\* its select.
ListAndWatchSend(s) ==
  /\ Alive /\ spc[s] \in {"send_first", "send"}
  /\ IF Len(sbuf[s]) < Len(devs)
       THEN /\ sbuf' = [sbuf EXCEPT ![s] = Append(@, Device(Len(@) + 1))]
            /\ UNCHANGED <<sent, spc, resends>>
       ELSE /\ sent' = [sent EXCEPT ![s] = Append(@, sbuf[s])]
            /\ sbuf' = [sbuf EXCEPT ![s] = << >>]
            /\ spc' = [spc EXCEPT ![s] = "select"]
            /\ resends' = IF spc[s] = "send" THEN resends + 1 ELSE resends
  /\ UNCHANGED <<callerVars, devVars, srvVars, stopVars, monVars, sdev, openSnap,
                 owed, recvs, rpcVars>>

\* ListAndWatch, lines 133-134: case <-m.stop: return nil.
ListAndWatchStop(s) ==
  /\ Alive /\ spc[s] = "select" /\ stop = "closed"
  /\ spc' = [spc EXCEPT ![s] = "returned"]
  /\ UNCHANGED <<callerVars, devVars, srvVars, stopVars, monVars, sdev, sbuf, sent,
                 openSnap, owed, recvs, resends, rpcVars>>

\* Line 183 meets line 135: m.health <- dev in healthcheck goroutine k and
\* d := <-m.health in handler s happen together (unbuffered channel).
ListAndWatchHealth(s, k) ==
  /\ Alive /\ spc[s] = "select" /\ mpc[k] = "unhealthy"
  /\ sdev' = [sdev EXCEPT ![s] = mdev[k]]
  /\ spc' = [spc EXCEPT ![s] = "mark"]
  /\ mpc' = [mpc EXCEPT ![k] = "select"]
  /\ mdev' = [mdev EXCEPT ![k] = 0]
  /\ recvs' = recvs + 1
  /\ UNCHANGED <<callerVars, devVars, srvVars, stopVars, launched, nFaults,
                 delivered, faultSeq, sbuf, sent, openSnap, owed, resends,
                 rpcVars>>

\* A loop that flips the health of the device it was handed (a second event
\* for a device would bring it back to Healthy).
ListAndWatchMark_Flip(s) ==
  /\ Alive /\ spc[s] = "mark"
  /\ devHealth' = [devHealth EXCEPT ![sdev[s]] =
                     IF @ = Healthy THEN Unhealthy ELSE Healthy]
  /\ sdev' = [sdev EXCEPT ![s] = 0]
  /\ spc' = [spc EXCEPT ![s] = "send"]
  /\ owed' = [owed EXCEPT ![s] = delivered]
  /\ UNCHANGED <<callerVars, devs, srvVars, stopVars, monVars, sbuf, sent,
                 openSnap, recvs, resends, rpcVars>>

\* ListAndWatch, line 137: d.Health = pluginapi.Unhealthy; then s.Send of
\* line 138 begins.
ListAndWatchMark(s) ==
  /\ Alive /\ spc[s] = "mark"
  /\ devHealth' = [devHealth EXCEPT ![sdev[s]] = Unhealthy]
  /\ sdev' = [sdev EXCEPT ![s] = 0]
  /\ spc' = [spc EXCEPT ![s] = "send"]
  /\ owed' = [owed EXCEPT ![s] = delivered]
  /\ UNCHANGED <<callerVars, devs, srvVars, stopVars, monVars, sbuf, sent,
                 openSnap, recvs, resends, rpcVars>>

(* ------------------------------- Next --------------------------------- *)
Next ==
  \/ MainFetchDevices
  \/ NewNvidiaDevicePlugin
  \/ StartCleanup
  \/ StartMkdirAll
  \/ StartListen
  \/ StartServe
  \/ StopNoServer
  \/ StopServer
  \/ StopClearServer
  \/ StopClose
  \/ StopCleanup
  \/ \E k \in Monitors : HealthcheckStop(k)
  \/ \E k \in Monitors : HealthcheckXid(k)
  \/ \E s \in Streams : ListAndWatchOpen(s)
  \/ \E s \in Streams : ListAndWatchSend(s)
  \/ \E s \in Streams : ListAndWatchStop(s)
  \/ \E s \in Streams : \E k \in Monitors : ListAndWatchHealth(s, k)
  \/ \E s \in Streams : ListAndWatchMark(s)

Spec == Init /\ [][Next]_vars

\* Scheduling: a goroutine that can run does run, a select with a ready
\* case that is ready again and again is eventually taken (Go picks among
\* ready cases at random), and a call of Start or Stop that has begun runs
\* to its return.  Nothing obliges the caller to call Start or Stop, the
\* orchestrator to open a stream, or the hardware to fault.
Fairness ==
  /\ \A s \in Streams :
       /\ WF_vars(ListAndWatchSend(s))
       /\ WF_vars(ListAndWatchMark(s))
       /\ SF_vars(ListAndWatchStop(s))
       /\ \A k \in Monitors : SF_vars(ListAndWatchHealth(s, k))
  /\ \A k \in Monitors : SF_vars(HealthcheckStop(k))
  /\ WF_vars(StartMkdirAll \/ StartListen \/ StartServe)
  /\ WF_vars(StopClearServer \/ StopClose \/ StopCleanup)

FairSpec == Spec /\ Fairness

(* ----------------------- InitContainer, AdmitPod ---------------------- *)

\* The ids a request may name: every id an enumeration can return and one
\* that no enumeration returns.
RequestIDs == { DeviceID(i) : i \in 1..(MaxDevs + 1) }

\* in.Container.Devices of an InitContainer request.
Requests == UNION { [1..n -> RequestIDs] : n \in 0..MaxReq }

\* in.Pod of an AdmitPod request: no pod, a pod with no annotations, a pod
\* with an annotation for another runtime.
Pods ==
  { << >>,
    << [Annotations |-> << >>] >>,
    << [Annotations |-> ("annotation.io.kubernetes.container.runtime" :> "runc")] >> }

\* map[string]string{"annotation.io.kubernetes.container.runtime": "nvidia"}
RuntimeAnnotation == ("annotation.io.kubernetes.container.runtime" :> "nvidia")

\* deviceExists(devs, id): some device of devs has this id.
deviceExists(ds, id) == \E i \in 1..Len(ds) : ds[i].ID = id

\* strings.Join(elems, sep): nothing for no element, else the first element
\* followed by sep and the next element for every further element.
RECURSIVE JoinFrom(_, _, _)
JoinFrom(elems, sep, i) ==
  IF i > Len(elems) THEN "" ELSE sep \o elems[i] \o JoinFrom(elems, sep, i + 1)

StringsJoin(elems, sep) ==
  IF Len(elems) = 0 THEN "" ELSE elems[1] \o JoinFrom(elems, sep, 2)

\* InitContainer, lines 159-163: the loop over in.Container.Devices from
\* position i on; the error of the first id that does not exist, or nil.
RECURSIVE CheckDevices(_, _, _)
CheckDevices(ds, ids, i) ==
  IF i > Len(ids) THEN "nil"
  ELSE IF ~deviceExists(ds, ids[i])
    THEN "invalid allocation request: unknown device: " \o ids[i]
    ELSE CheckDevices(ds, ids, i + 1)

\* An InitContainer that refuses devices that are not Healthy.
InitContainer_HealthyOnly(ds, ids) ==
  LET err == CheckDevices(SelectSeq(ds, LAMBDA d : d.Health = Healthy), ids, 1)
      response ==
        [Spec |-> [Envs |-> ("NVIDIA_VISIBLE_DEVICES" :> StringsJoin(ids, ",")),
                   Annotations |-> RuntimeAnnotation]]
  IN IF err = "nil" THEN Result(<<response>>, "nil") ELSE Result(<< >>, err)

\* An InitContainer that puts only the ids it has checked so far into the
\* environment and answers with what it has when an id is unknown.
InitContainer_Partial(ds, ids) ==
  LET known == SelectSeq(ids, LAMBDA id : deviceExists(ds, id))
      err == CheckDevices(ds, ids, 1)
      response ==
        [Spec |-> [Envs |-> ("NVIDIA_VISIBLE_DEVICES" :> StringsJoin(known, ",")),
                   Annotations |-> RuntimeAnnotation]]
  IN Result(<<response>>, err)

\* An InitContainer that joins the ids with a comma before every id.
InitContainer_LeadingComma(ds, ids) ==
  LET err == CheckDevices(ds, ids, 1)
      response ==
        [Spec |-> [Envs |-> ("NVIDIA_VISIBLE_DEVICES" :> JoinFrom(ids, ",", 1)),
                   Annotations |-> RuntimeAnnotation]]
  IN IF err = "nil" THEN Result(<<response>>, "nil") ELSE Result(<< >>, err)

\* InitContainer, lines 144-166, for the devices ds and the requested ids.
InitContainer(ds, ids) ==
  LET err == CheckDevices(ds, ids, 1)
      response ==
        [Spec |-> [Envs |-> ("NVIDIA_VISIBLE_DEVICES" :> StringsJoin(ids, ",")),
                   Annotations |-> RuntimeAnnotation]]
  IN IF err = "nil" THEN Result(<<response>>, "nil") ELSE Result(<< >>, err)

\* An AdmitPod that keeps the annotations of the pod it was given and
\* fails when there is no pod.
AdmitPod_Merge(pod) ==
  IF Len(pod) = 0 THEN Result(<< >>, "no pod")
  ELSE Result(<<[Pod |-> [Annotations |-> pod[1].Annotations @@ RuntimeAnnotation]]>>, "nil")

\* AdmitPod, lines 168-180.
AdmitPod(pod) == Result(<<[Pod |-> [Annotations |-> RuntimeAnnotation]]>>, "nil")

\* An InitContainer call is served: devs := m.devs is read and the result is
\* computed. The handlers share nothing with each other, so one call in
\* flight at a time stands for any number of them.
InitContainerCall ==
  /\ Alive
  /\ rpc = NoCall
  /\ \E ids \in Requests :
       rpc' = [op |-> "InitContainer", req |-> ids, out |-> InitContainer(Snapshot, ids)]
  /\ UNCHANGED <<callerVars, devVars, srvVars, stopVars, monVars, strVars>>

\* An AdmitPod call is served.
AdmitPodCall ==
  /\ Alive
  /\ rpc = NoCall
  /\ \E pod \in Pods :
       rpc' = [op |-> "AdmitPod", req |-> pod, out |-> AdmitPod(pod)]
  /\ UNCHANGED <<callerVars, devVars, srvVars, stopVars, monVars, strVars>>

\* The handler returns: its result goes back to the caller.
RpcReturn ==
  /\ Alive
  /\ rpc # NoCall
  /\ rpc' = NoCall
  /\ UNCHANGED <<callerVars, devVars, srvVars, stopVars, monVars, strVars>>

\* The plugin right after a Start that succeeded on a freshly constructed
\* plugin: the server serves, the first healthcheck goroutine is at its
\* select, no stream is open yet.
RpcInit ==
  /\ callerPc = "idle"
  /\ ret = Ret("Start", "nil")
  /\ devs \in getDevices
  /\ devHealth = [i \in 1..Len(devs) |-> Healthy]
  /\ socket = TRUE
  /\ server = TRUE
  /\ serving = TRUE
  /\ stop = "open"
  /\ stopCloses = 0
  /\ panicked = FALSE
  /\ launched = 1
  /\ mpc = [k \in Monitors |-> IF k = 1 THEN "select" ELSE "none"]
  /\ mdev = [k \in Monitors |-> 0]
  /\ nFaults = 0
  /\ delivered = {}
  /\ faultSeq = << >>
  /\ spc = [s \in Streams |-> "idle"]
  /\ sdev = [s \in Streams |-> 0]
  /\ sbuf = [s \in Streams |-> << >>]
  /\ sent = [s \in Streams |-> << >>]
  /\ openSnap = [s \in Streams |-> << >>]
  /\ owed = [s \in Streams |-> {}]
  /\ recvs = 0
  /\ resends = 0
  /\ rpc = NoCall

\* The calls the orchestrator makes on a started plugin, the goroutines of
\* the plugin, and the Stop that ends it.
RpcNext ==
  \/ InitContainerCall
  \/ AdmitPodCall
  \/ RpcReturn
  \/ StopNoServer
  \/ StopServer
  \/ StopClearServer
  \/ StopClose
  \/ StopCleanup
  \/ \E k \in Monitors : HealthcheckStop(k)
  \/ \E k \in Monitors : HealthcheckXid(k)
  \/ \E s \in Streams : ListAndWatchOpen(s)
  \/ \E s \in Streams : ListAndWatchSend(s)
  \/ \E s \in Streams : ListAndWatchStop(s)
  \/ \E s \in Streams : \E k \in Monitors : ListAndWatchHealth(s, k)
  \/ \E s \in Streams : ListAndWatchMark(s)

RpcSpec == RpcInit /\ [][RpcNext]_vars

(* --------------------------- the main program ------------------------- *)

\* The process starts like Init, except that an earlier process may have
\* left its socket file behind.
MainInit ==
  /\ callerPc = "fetch"
  /\ ret = Ret("none", "nil")
  /\ devs = << >>
  /\ devHealth = << >>
  /\ socket \in BOOLEAN
  /\ server = FALSE
  /\ serving = FALSE
  /\ stop = "open"
  /\ stopCloses = 0
  /\ panicked = FALSE
  /\ launched = 0
  /\ mpc = [k \in Monitors |-> "none"]
  /\ mdev = [k \in Monitors |-> 0]
  /\ nFaults = 0
  /\ delivered = {}
  /\ faultSeq = << >>
  /\ spc = [s \in Streams |-> "idle"]
  /\ sdev = [s \in Streams |-> 0]
  /\ sbuf = [s \in Streams |-> << >>]
  /\ sent = [s \in Streams |-> << >>]
  /\ openSnap = [s \in Streams |-> << >>]
  /\ owed = [s \in Streams |-> {}]
  /\ recvs = 0
  /\ resends = 0
  /\ rpc = NoCall

\* main.go 36: devicePlugin.Start() is called once, on the plugin just made.
MainStart == ret.op = "none" /\ StartCleanup

\* main.go 42-44: a signal arrives after Start returned nil; Stop is called.
\* After a Start that returned an error main is at select {} (line 38).
MainStop == ret = Ret("Start", "nil") /\ StopServer

\* main has not returned: the process and its goroutines are still there.
Running == ret.op # "Stop"

MainNext ==
  \/ MainFetchDevices
  \/ NewNvidiaDevicePlugin
  \/ MainStart
  \/ StartMkdirAll
  \/ StartListen
  \/ StartServe
  \/ MainStop
  \/ StopClearServer
  \/ StopClose
  \/ StopCleanup
  \/ \E k \in Monitors : Running /\ HealthcheckStop(k)
  \/ \E k \in Monitors : Running /\ HealthcheckXid(k)
  \/ \E s \in Streams : Running /\ ListAndWatchOpen(s)
  \/ \E s \in Streams : Running /\ ListAndWatchSend(s)
  \/ \E s \in Streams : Running /\ ListAndWatchStop(s)
  \/ \E s \in Streams : \E k \in Monitors : Running /\ ListAndWatchHealth(s, k)
  \/ \E s \in Streams : Running /\ ListAndWatchMark(s)

MainSpec == MainInit /\ [][MainNext]_vars

(* ------------------------- derived predicates ------------------------- *)

\* Handler s has been entered and has not returned.
StreamOpen(s) == spc[s] \in {"send_first", "select", "mark", "send"}

\* Stop has been called on a plugin with a server (it is past its guard).
StopCalled ==
  \/ stopCloses > 0
  \/ callerPc \in {"stop_clear", "stop_close", "stop_cleanup", "panic"}

\* Some response sent on stream s reports device d Unhealthy.
Reported(s, d) ==
  \E i \in 1..Len(sent[s]) :
    IF d <= Len(sent[s][i]) THEN sent[s][i][d].Health = Unhealthy ELSE FALSE

\* Device d of m.devs is Unhealthy.
IsUnhealthy(d) == IF d <= Len(devs) THEN devHealth[d] = Unhealthy ELSE FALSE

\* No Start or Stop call is in progress.
CallerAtRest == callerPc \in {"fetch", "new", "idle", "halted"}

(* ------------------------------ claims -------------------------------- *)

\* C1: once the healthcheck goroutine has received a fault event for a
\* device, every s.Send that begins afterwards, on every stream, reports
\* that device Unhealthy (the first send of a stream opened later included).
C1_SendAfterFaultReportsUnhealthy ==
  [][\A s \in Streams :
       Len(sent'[s]) > Len(sent[s]) =>
         \A d \in owed[s] : sent'[s][Len(sent'[s])][d].Health = Unhealthy]_vars

\* C2: whenever a device is Unhealthy while a stream is open and Stop has
\* not been called, that stream eventually sends a response reporting the
\* device Unhealthy (or Stop is called, or the process is gone).
C2_EveryOpenStreamResends ==
  \A s \in Streams : \A d \in DevIdx :
    (IsUnhealthy(d) /\ StreamOpen(s) /\ ~StopCalled)
      ~> (Reported(s, d) \/ StopCalled \/ panicked)

\* C3: once m.stop is closed, every healthcheck goroutine that was launched
\* eventually exits (or the process is gone).
C3_HealthcheckExitsAfterStop ==
  \A k \in Monitors :
    (mpc[k] # "none" /\ stop = "closed") ~> (mpc[k] = "exited" \/ panicked)

\* C4: once m.stop is closed, every open ListAndWatch handler eventually
\* returns nil.
C4_StreamsReturnAfterStop ==
  \A s \in Streams :
    (StreamOpen(s) /\ stop = "closed") ~> (spc[s] = "returned")

\* C5: close(m.stop) is executed at most once over any sequence of Start
\* and Stop calls, so a closed m.stop is never closed again.
C5_StopClosedAtMostOnce == stopCloses <= 1 /\ ~panicked

\* C6: a Stop that finds no server returns nil and changes nothing; every
\* Stop call returns nil without panicking, and once a Start has succeeded
\* the socket file is absent when a Stop returns.
C6_StopIdempotent ==
  [][/\ ~panicked'
     /\ (callerPc = "idle" /\ callerPc' = "idle" /\ ret' # ret /\ ret'.op = "Stop")
          => /\ ret'.err = "nil"
             /\ UNCHANGED <<devVars, srvVars, stopVars, monVars, strVars, rpcVars>>
     /\ (callerPc' = "idle" /\ ret'.op = "Stop" /\ (ret' # ret \/ callerPc # "idle"))
          => /\ ret'.err = "nil"
             /\ (launched > 0 => ~socket')]_vars

\* C7: while no Start or Stop is in progress, the socket file exists
\* exactly when m.server is non-nil.
C7_SocketIffServing == CallerAtRest => (socket <=> server)

\* C8: m.devs is not empty while the gRPC server is serving.
C8_DevsNonEmptyWhenServing == serving => Len(devs) >= 1

\* C9: a handler that has reached its select has sent a response, and the
\* first response of every stream is the device list as it was when the
\* handler was entered: the same ids and health values in the same order.
C9_FirstSendIsSnapshot ==
  \A s \in Streams :
    /\ spc[s] \in {"select", "mark", "send", "returned"} => Len(sent[s]) >= 1
    /\ Len(sent[s]) >= 1 => sent[s][1] = openSnap[s]

\* C10: every value read from m.health is followed by exactly one s.Send,
\* which completes before the next value is read from m.health: at most
\* one value read from m.health is waiting for its send.
C10_OneSendPerEvent == recvs - resends \in {0, 1}

\* Device d1's first fault event was received before device d2's.
FaultBefore(d1, d2) ==
  \E i \in 1..Len(faultSeq) : \E j \in 1..Len(faultSeq) :
    i < j /\ faultSeq[i] = d1 /\ faultSeq[j] = d2

\* Handler s is inside an s.Send that has read some but not all devices.
SendReading(s) ==
  spc[s] \in {"send_first", "send"} /\ Len(sbuf[s]) < Len(devs)

\* C11: a device's health never goes from Unhealthy back to Healthy, and on
\* every stream a device reported Unhealthy in one response is reported
\* Unhealthy in every later response.
C11_HealthOneWay ==
  /\ [](\A s \in Streams : \A i \in 1..Len(sent[s]) : \A j \in 1..Len(sent[s]) :
          \A d \in 1..Len(devs) :
            (i < j /\ sent[s][i][d].Health = Unhealthy)
              => sent[s][j][d].Health = Unhealthy)
  /\ [][\A d \in 1..Len(devs) :
          devHealth[d] = Unhealthy => devHealth'[d] = Unhealthy]_vars

\* C11 witness: a stream has sent a device as Unhealthy twice in a row,
\* after a second fault event for it.
C11_Witness ==
  \E s \in Streams :
    /\ Len(sent[s]) >= 3
    /\ sent[s][2][1].Health = Unhealthy
    /\ sent[s][3][1].Health = Unhealthy
    /\ recvs = 2

\* C15: once the plugin is constructed, a device's health is changed only
\* by a step of the healthcheck goroutine, never by a step of a
\* ListAndWatch handler, and never while a handler is reading the device
\* list for a send.
C15_OnlyHealthcheckWritesHealth ==
  [][(devHealth' # devHealth /\ callerPc # "new")
       => (spc' = spc /\ \A s \in Streams : ~SendReading(s))]_vars

\* C16: a fault event for a device that is already Unhealthy is dropped by
\* healthcheck: unhealthy() is entered (the device offered on m.health)
\* only for a device that is Healthy.
C16_FaultOnUnhealthyIsNoop ==
  [][\A k \in Monitors :
       (mpc[k] = "select" /\ mpc'[k] = "unhealthy")
         => (IF mdev'[k] \in 1..Len(devs)
               THEN devHealth[mdev'[k]] = Healthy ELSE FALSE)]_vars

\* C17: if the fault event for d1 was received before the one for d2, no
\* response on any stream reports d2 Unhealthy and d1 Healthy.
C17_FaultsVisibleInOrder ==
  \A s \in Streams : \A i \in 1..Len(sent[s]) :
    \A d1 \in 1..Len(devs) : \A d2 \in 1..Len(devs) :
      (FaultBefore(d1, d2) /\ sent[s][i][d2].Health = Unhealthy)
        => sent[s][i][d1].Health = Unhealthy

\* C19: a Stop that found a server first stops the gRPC server, then clears
\* m.server, then closes m.stop, and only then removes the socket file: the
\* file is untouched and m.stop is not closed by the first two steps, and
\* m.stop is closed whenever the removal is attempted, so also when Stop
\* returns the removal's error.
C19_StopOrder ==
  /\ [](/\ callerPc = "stop_clear" => (server /\ ~serving)
        /\ callerPc = "stop_close" => (~server /\ ~serving)
        /\ callerPc = "stop_cleanup" => (~server /\ ~serving /\ stop = "closed")
        /\ ret = Ret("Stop", "remove") => stop = "closed")
  /\ [][/\ callerPc' \in {"stop_clear", "stop_close"}
             => (stop' = stop /\ socket' = socket)
        /\ callerPc' = "stop_cleanup"
             => socket' = socket]_vars

\* C19 witness: Stop has returned the removal's error, the socket file is
\* still there and m.stop is closed.
C19_Witness ==
  /\ callerPc = "idle"
  /\ ret = Ret("Stop", "remove")
  /\ socket
  /\ stop = "closed"

(* ---------------------- InitContainer and AdmitPod --------------------- *)

\* Position i of the request names an id that no device of the plugin has.
UnknownAt(ids, i) == \A d \in 1..Len(devs) : devs[d] # ids[i]

\* The request names at least one id that no device of the plugin has.
HasUnknown(ids) == \E i \in 1..Len(ids) : UnknownAt(ids, i)

\* The first id of the request, in request order, that no device has.
FirstUnknown(ids) ==
  ids[CHOOSE i \in 1..Len(ids) :
        UnknownAt(ids, i) /\ \A j \in 1..(i - 1) : ~UnknownAt(ids, j)]

\* The ids separated by commas, in the order given.
RECURSIVE CommaJoined(_)
CommaJoined(ids) ==
  IF Len(ids) = 0 THEN ""
  ELSE IF Len(ids) = 1 THEN ids[1]
  ELSE CommaJoined(SubSeq(ids, 1, Len(ids) - 1)) \o "," \o ids[Len(ids)]

\* The devices of the plugin with the health values h in place of their own.
WithHealth(h) == [i \in 1..Len(devs) |-> [ID |-> devs[i], Health |-> h[i]]]

\* C12: an InitContainer whose request names an id that is not in the device
\* set fails: the error names the first unknown id in request order and there
\* is no response at all, even when other requested ids are known.
C12_UnknownIdFails ==
  (rpc.op = "InitContainer" /\ HasUnknown(rpc.req))
    => /\ rpc.out.resp = << >>
       /\ rpc.out.err = "invalid allocation request: unknown device: "
                          \o FirstUnknown(rpc.req)

C12_Witness ==
  /\ rpc.op = "InitContainer"
  /\ Len(devs) = 2
  /\ rpc.req = <<"GPU-0", "GPU-2">>
  /\ rpc.out = Result(<< >>, "invalid allocation request: unknown device: GPU-2")

\* C13: an InitContainer whose requested ids are all in the device set
\* succeeds, NVIDIA_VISIBLE_DEVICES is the requested ids joined by commas in
\* request order (duplicates and the empty list included), and the response
\* carries the fixed runtime annotation.
C13_KnownIdsSucceed ==
  (rpc.op = "InitContainer" /\ ~HasUnknown(rpc.req))
    => /\ rpc.out.err = "nil"
       /\ Len(rpc.out.resp) = 1
       /\ rpc.out.resp[1].Spec.Envs
            = ("NVIDIA_VISIBLE_DEVICES" :> CommaJoined(rpc.req))
       /\ rpc.out.resp[1].Spec.Annotations
            = ("annotation.io.kubernetes.container.runtime" :> "nvidia")

C13_Witness ==
  /\ rpc.op = "InitContainer"
  /\ rpc.req = <<"GPU-1", "GPU-1">>
  /\ rpc.out.err = "nil"
  /\ rpc.out.resp[1].Spec.Envs["NVIDIA_VISIBLE_DEVICES"] = "GPU-1,GPU-1"

\* C14: AdmitPod is served in every plugin state, always succeeds with a
\* pod spec whose annotations are exactly the fixed runtime annotation,
\* whatever pod it is given, and changes no plugin state.
C14_AdmitPodUnconditional ==
  /\ [](rpc = NoCall => ENABLED AdmitPodCall)
  /\ [](IF rpc.op = "AdmitPod"
          THEN /\ rpc.out.err = "nil"
               /\ Len(rpc.out.resp) = 1
               /\ rpc.out.resp[1].Pod.Annotations
                    = ("annotation.io.kubernetes.container.runtime" :> "nvidia")
          ELSE TRUE)
  /\ [][(rpc' # rpc /\ rpc'.op = "AdmitPod")
          => UNCHANGED <<callerVars, devVars, srvVars, stopVars, monVars, strVars>>]_vars

C14_Witness ==
  /\ rpc.op = "AdmitPod"
  /\ rpc.req = << >>
  /\ rpc.out.err = "nil"
  /\ stop = "closed"
  /\ \E d \in 1..Len(devs) : devHealth[d] = Unhealthy

\* C20: InitContainer only reads which device ids exist: a call changes
\* neither the devices, their health, the health channel, the stop channel
\* nor the server handle, it is served in every state (it never blocks), and its
\* outcome is the one it would have for every other assignment of health
\* values to the devices, whatever the streams and the healthcheck are doing.
C20_InitContainerPureRead ==
  /\ [](rpc = NoCall => ENABLED InitContainerCall)
  /\ [][IF rpc' # rpc /\ rpc'.op = "InitContainer"
          THEN /\ UNCHANGED <<callerVars, devVars, srvVars, stopVars, monVars, strVars>>
               /\ \A h \in [1..Len(devs) -> {Healthy, Unhealthy}] :
                    InitContainer(WithHealth(h), rpc'.req) = rpc'.out
          ELSE TRUE]_vars

C20_Witness ==
  /\ rpc.op = "InitContainer"
  /\ rpc.req = <<"GPU-0">>
  /\ rpc.out.err = "nil"
  /\ Len(devs) >= 1
  /\ devHealth[1] = Unhealthy
  /\ \E s \in Streams : spc[s] # "idle"
  /\ \E k \in Monitors : mpc[k] = "unhealthy"

(* ----------------------------- failed Start --------------------------- *)

\* Start has returned an error.
StartFailed == ret.op = "Start" /\ ret.err # "nil"

\* The error of the Start step the caller is at, should that step fail.
StepError ==
  CASE callerPc = "idle" -> "remove"
    [] callerPc = "start_mkdir" -> "mkdir"
    [] callerPc = "start_listen" -> "listen"
    [] OTHER -> "none"

\* C18: a Start that fails at the socket removal, the directory creation or
\* the bind returns that step's error and leaves the plugin Stopped (no
\* server handle, nothing serving, no healthcheck launched, the stop channel
\* open); after it the caller neither starts again nor stops.
C18_FailedStartLeavesStopped ==
  /\ [](callerPc \in {"start_mkdir", "start_listen"}
          => (~server /\ ~serving /\ launched = 0 /\ stop = "open"))
  /\ [](StartFailed
          => /\ callerPc = "idle"
             /\ ~server /\ ~serving
             /\ launched = 0 /\ \A k \in Monitors : mpc[k] = "none"
             /\ stop = "open" /\ stopCloses = 0)
  /\ [][(ret' # ret /\ ret'.op = "Start" /\ ret'.err # "nil")
          => (ret'.err = StepError /\ UNCHANGED <<server, serving, stopVars, monVars>>)]_vars
  /\ [][StartFailed => UNCHANGED <<callerVars, srvVars, stopVars, monVars>>]_vars

C18_Witness ==
  /\ ret = Ret("Start", "listen")
  /\ callerPc = "idle"
  /\ ~server /\ ~socket
  /\ launched = 0
  /\ stop = "open"

====
